---- MODULE Spec2Model ----
(***************************************************************************)
(* A model of compare_epub.py: the comparison of two EPUB archives         *)
(* (original, translated) that yields a line-oriented text report.         *)
(*                                                                         *)
(* Strings are TLA+ strings; a character is a string of length one.        *)
(* Archive payloads (bytes) are strings too; the character HiByte stands   *)
(* for one byte outside ASCII that is no valid UTF-8 sequence.             *)
(* A Python None is the empty tuple, a value x that may be None is <<x>>.  *)
(***************************************************************************)
EXTENDS Integers, Sequences, FiniteSets, TLC

VARIABLES
    zo,             \* the original archive: its entries in listing order
    zt,             \* the translated archive
    pc,             \* position inside compare_epub
    raised,         \* the exception compare_epub left with, None while it has none
    report_lines,   \* compare_epub's report_lines
    names_o, names_t,       \* zip_namelist_files of each archive
    missing, extra,         \* the file set diff
    opf_o_rel, opf_t_rel,   \* rootfile path of each side, or None
    opf_o, opf_t,           \* parsed package document of each side, or None
    man_missing, man_extra, \* manifest set diff, None while unbound
    diff_idx,               \* first spine diff index, None while unbound
    mt_diffs,               \* media-type difference count, None while unbound
    changed, non_html_changed, changed_html_paths, changed_blobs_t,
    html_issues,
    raw_names, listing,     \* SpecNames: raw entry names and their listing
    spine_o, spine_t, spine_idx,    \* SpecSpine: two reading orders, the index
    doc_path, doc_text, doc_names, doc_issues,  \* SpecHtml: one call of find_html_issues
    doc_refs                \* SpecHtml: the src/href values doc_text was written with

vars == << zo, zt, pc, raised, report_lines, names_o, names_t, missing, extra,
           opf_o_rel, opf_t_rel, opf_o, opf_t, man_missing, man_extra, diff_idx,
           mt_diffs, changed, non_html_changed, changed_html_paths, changed_blobs_t,
           html_issues, raw_names, listing, spine_o, spine_t, spine_idx,
           doc_path, doc_text, doc_names, doc_issues, doc_refs >>

None == << >>
Some(x) == << x >>

\* ------------------------------------------------------------------ str

Min(a, b) == IF a < b THEN a ELSE b

\* the i-th character counted from 1, '' outside the string
Ch(s, i) == IF 1 <= i /\ i <= Len(s) THEN SubSeq(s, i, i) ELSE ""

\* s[i:] and s[:i] with i >= 0 counted from 0 as Python does
From(s, i) == IF i >= Len(s) THEN "" ELSE SubSeq(s, i + 1, Len(s))
Upto(s, i) == SubSeq(s, 1, Min(i, Len(s)))

startswith(s, p) == Len(p) <= Len(s) /\ SubSeq(s, 1, Len(p)) = p
endswith(s, p) == Len(p) <= Len(s) /\ SubSeq(s, Len(s) - Len(p) + 1, Len(s)) = p

\* the code points the model's strings are made of, in ascending order (the
\* backquote, which no input uses, is left out); HiByte sorts last, as a byte
\* above 0x7f does
Ascii == "\t\n\r !\"#$%&'()*+,-./0123456789:;<=>?@ABCDEFGHIJKLMNOPQRSTUVWXYZ[\\]^_abcdefghijklmnopqrstuvwxyz{|}~"
HiByte == "~"
CharSet == { Ch(Ascii, i) : i \in 1..Len(Ascii) }
Ord == [ c \in CharSet |-> CHOOSE i \in 1..Len(Ascii) : Ch(Ascii, i) = c ]

Whitespace == { " ", "\t", "\n", "\r" }
Digits == { Ch("0123456789", i) : i \in 1..10 }
UpperCase == "ABCDEFGHIJKLMNOPQRSTUVWXYZ"
LowerCase == "abcdefghijklmnopqrstuvwxyz"
Uppers == { Ch(UpperCase, i) : i \in 1..26 }
Lowers == { Ch(LowerCase, i) : i \in 1..26 }
Letters == Uppers \cup Lowers
HexDigits == Digits \cup { "a", "b", "c", "d", "e", "f", "A", "B", "C", "D", "E", "F" }
LowerOf == [ c \in CharSet |->
               IF c \in Uppers THEN Ch(LowerCase, Ord[c] - Ord["A"] + 1) ELSE c ]

\* the least i in lo..hi with P(i), hi + 1 when there is none
MinOr(hits, default) ==
    IF hits = {} THEN default ELSE CHOOSE i \in hits : \A j \in hits : i <= j
FirstIndex(P(_), lo, hi) == MinOr({ i \in lo..hi : P(i) }, hi + 1)

\* the string of f[c] for the characters c of s, in order
RECURSIVE MapChars(_, _)
MapChars(f, s) ==
    IF s = "" THEN ""
    ELSE IF Len(s) = 1 THEN f[s]
    ELSE MapChars(f, Upto(s, Len(s) \div 2)) \o MapChars(f, From(s, Len(s) \div 2))

lower(s) == MapChars(LowerOf, s)

\* str.replace('\\', '/')
BackslashToSlash == [ c \in CharSet |-> IF c = "\\" THEN "/" ELSE c ]
replace_backslash(s) == MapChars(BackslashToSlash, s)

\* str.strip()
StripAt(s, a, b) == IF a > Len(s) THEN "" ELSE SubSeq(s, a, Len(s) + 1 - b)
strip(s) ==
    StripAt(s, FirstIndex(LAMBDA i : Ch(s, i) \notin Whitespace, 1, Len(s)),
               FirstIndex(LAMBDA k : Ch(s, Len(s) + 1 - k) \notin Whitespace, 1, Len(s)))

\* str.find(sub) counted from 0, -1 when absent
FoundAt(i, hi) == IF i > hi THEN -1 ELSE i - 1
find(s, sub) ==
    IF Len(sub) > Len(s) THEN -1
    ELSE FoundAt(FirstIndex(LAMBDA k : SubSeq(s, k, k + Len(sub) - 1) = sub,
                            1, Len(s) - Len(sub) + 1),
                 Len(s) - Len(sub) + 1)
contains(s, sub) == find(s, sub) # -1

\* str.rfind(c) for a one-character c
RFoundAt(k, n) == IF k > n THEN -1 ELSE n - k
rfind(s, c) == RFoundAt(FirstIndex(LAMBDA j : Ch(s, Len(s) + 1 - j) = c, 1, Len(s)), Len(s))

\* str.split(sep) for a one-character sep
RECURSIVE split(_, _)
SplitAt(s, sep, i) ==
    IF i = -1 THEN << s >> ELSE << Upto(s, i) >> \o split(From(s, i + 1), sep)
split(s, sep) == SplitAt(s, sep, find(s, sep))

RECURSIVE join(_, _)
join(sep, xs) ==
    IF xs = << >> THEN ""
    ELSE IF Len(xs) = 1 THEN xs[1]
    ELSE xs[1] \o sep \o join(sep, Tail(xs))

\* the order of Python's str comparison
StrLessAt(a, b, d) ==
    IF d > Min(Len(a), Len(b)) THEN Len(a) < Len(b) ELSE Ord[Ch(a, d)] < Ord[Ch(b, d)]
StrLess(a, b) ==
    StrLessAt(a, b, FirstIndex(LAMBDA i : Ch(a, i) # Ch(b, i), 1, Min(Len(a), Len(b))))

\* sorted(set(...)) of strings
RECURSIVE SetToSeq(_)
PickFirst(S, x) == << x >> \o SetToSeq(S \ { x })
SetToSeq(S) == IF S = {} THEN << >> ELSE PickFirst(S, CHOOSE y \in S : TRUE)
sorted(S) == SortSeq(SetToSeq(S), StrLess)

Range(xs) == { xs[i] : i \in 1..Len(xs) }
Take(xs, n) == SubSeq(xs, 1, Min(n, Len(xs)))

\* -------------------------------------------------------------- os.path

\* posixpath.normpath
RECURSIVE NormComps(_, _, _)
\* one turn of normpath's loop over the components
NormStep(comp, new_comps, n, initial_slashes) ==
    IF comp \in { "", "." } THEN new_comps
    ELSE IF \/ comp # ".."
            \/ (initial_slashes = 0 /\ n = 0)
            \/ (n > 0 /\ new_comps[n] = "..")
        THEN Append(new_comps, comp)
    ELSE IF n > 0 THEN SubSeq(new_comps, 1, n - 1)
    ELSE new_comps

NormComps(comps, new_comps, initial_slashes) ==
    IF comps = << >> THEN new_comps
    ELSE NormComps(Tail(comps),
                   NormStep(Head(comps), new_comps, Len(new_comps), initial_slashes),
                   initial_slashes)

InitialSlashes(path) ==
    IF ~startswith(path, "/") THEN 0
    ELSE IF startswith(path, "//") /\ ~startswith(path, "///") THEN 2
    ELSE 1

DotIfEmpty(p) == IF p = "" THEN "." ELSE p

normpath(path) ==
    IF path = "" THEN "."
    ELSE DotIfEmpty(SubSeq("//", 1, InitialSlashes(path))
                    \o join("/", NormComps(split(path, "/"), << >>, InitialSlashes(path))))

\* str.rstrip('/')
rstripSlash(s) ==
    Upto(s, Len(s) + 1 - FirstIndex(LAMBDA k : Ch(s, Len(s) + 1 - k) # "/", 1, Len(s)))

\* posixpath.dirname
StrippedHead(head, stripped) == IF head # "" /\ stripped # "" THEN stripped ELSE head
DirHead(head) == StrippedHead(head, rstripSlash(head))
dirname(p) == DirHead(Upto(p, rfind(p, "/") + 1))

\* posixpath.basename
basename(p) == From(p, rfind(p, "/") + 1)

\* posixpath.join of two parts
path_join(a, b) ==
    IF startswith(b, "/") THEN b
    ELSE IF a = "" \/ endswith(a, "/") THEN a \o b
    ELSE a \o "/" \o b

\* lines 20-22
StripDotSlash(norm) == IF startswith(norm, "./") THEN From(norm, 2) ELSE norm

normalize_path(path) == StripDotSlash(strip(replace_backslash(normpath(path))))


\* -------------------------------------------------------------- zipfile

\* An archive is the sequence of its entries in listing order; an entry is
\* [filename, data, compress_type]. zipfile keeps the raw names as stored.
ZIP_STORED == 0

namelist(z) == [ i \in 1..Len(z) |-> z[i].filename ]

HasName(z, name) == \E i \in 1..Len(z) : z[i].filename = name

\* ZipFile.getinfo: the last entry stored under that raw name (KeyError when
\* there is none, which the callers test with HasName)
getinfo(z, name) ==
    z[CHOOSE i \in 1..Len(z) :
        /\ z[i].filename = name
        /\ \A j \in (i + 1)..Len(z) : z[j].filename # name]

\* ZipFile.read / ZipFile.open(...).read()
zread(z, name) == getinfo(z, name).data

RECURSIVE zip_namelist_files_from(_)
zip_namelist_files_from(names) ==
    IF names = << >> THEN << >>
    ELSE (IF endswith(Head(names), "/") THEN << >> ELSE << normalize_path(Head(names)) >>)
         \o zip_namelist_files_from(Tail(names))

zip_namelist_files(z) == zip_namelist_files_from(namelist(z))

\* bytes.decode('ascii', errors='ignore'): bytes outside ASCII are dropped
AsciiOnly == [ c \in CharSet |-> IF c = HiByte THEN "" ELSE c ]
decode_ascii_ignore(data) == MapChars(AsciiOnly, data)

\* bytes.decode('utf-8', errors='replace'): ASCII bytes are themselves and an
\* invalid byte becomes U+FFFD, for which HiByte goes on standing
decode_utf8_replace(data) == data

read_text_from_zip(z, name, encoding) ==
    IF encoding = "ascii" THEN decode_ascii_ignore(zread(z, name))
    ELSE decode_utf8_replace(zread(z, name))

\* ---------------------------------------------------- the documents held

MIME == "application/epub+zip"
XHTML == "application/xhtml+xml"
OPF_NS == "http://www.idpf.org/2007/opf"

Item(id, href, mt) == [ id |-> id, href |-> href, media_type |-> mt ]

ItemXml(it) ==
    "<item id=\"" \o it.id \o "\" href=\"" \o it.href \o "\""
    \o (IF it.media_type = "" THEN "" ELSE " media-type=\"" \o it.media_type \o "\"")
    \o "/>"
ItemrefXml(idref) == "<itemref idref=\"" \o idref \o "\"/>"

RECURSIVE Concat(_)
Concat(xs) == IF xs = << >> THEN "" ELSE Head(xs) \o Concat(Tail(xs))

OpfXml(ns, items, itemrefs) ==
    (IF ns = "" THEN "<package>" ELSE "<package xmlns=\"" \o ns \o "\">")
    \o "<manifest>" \o Concat([ i \in 1..Len(items) |-> ItemXml(items[i]) ]) \o "</manifest>"
    \o "<spine>" \o Concat([ i \in 1..Len(itemrefs) |-> ItemrefXml(itemrefs[i]) ])
    \o "</spine></package>"

\* What xml.etree makes of a text: ok (no ParseError), the root's namespace, the
\* rootfile elements' attributes, the manifest's items and the spine's idrefs
\* (in the documents below every element is in the root's namespace).
Tree(text, ok, ns, rootfiles, items, itemrefs) ==
    [ text |-> text, ok |-> ok, ns |-> ns, rootfiles |-> rootfiles,
      items |-> items, itemrefs |-> itemrefs ]
Rootfile(full_path, fullPath) == [ full_path |-> full_path, fullPath |-> fullPath ]

ContainerOk == "<container><rootfiles><rootfile full-path=\"content.opf\"/></rootfiles></container>"
ContainerAlt == "<container><rootfiles><rootfile fullPath=\"./content.opf\"/></rootfiles></container>"
ContainerOther == "<container><rootfiles><rootfile full-path=\"OEBPS/content.opf\"/></rootfiles></container>"
ContainerEmpty == "<container><rootfiles/></container>"
ContainerBad == "<container><rootfiles>"

ItemsOk == << Item("c1", "ch1.xhtml", XHTML), Item("a", "a.txt", "text/plain") >>
ItemsGhost == ItemsOk \o << Item("g", "ghost.xhtml", XHTML) >>
ItemsMedia == << Item("c1", "ch1.xhtml", XHTML), Item("a", "a.txt", "") >>
ItemsDot == << Item("c1", "ch1.xhtml", XHTML), Item("a", "./a.txt", "text/plain") >>

OpfOk == OpfXml(OPF_NS, ItemsOk, << "c1", "a" >>)
OpfBare == OpfXml("", ItemsOk, << "c1", "a" >>)
OpfBad == "<package><manifest>"
OpfGhost == OpfXml(OPF_NS, ItemsGhost, << "c1", "a", "g" >>)
OpfMedia == OpfXml(OPF_NS, ItemsMedia, << "c1", "a" >>)
OpfSwap == OpfXml(OPF_NS, ItemsOk, << "a", "c1" >>)
OpfShort == OpfXml(OPF_NS, ItemsDot, << "c1", "zz" >>)

XHTML_NS_TAG == "<html xmlns=\"http://www.w3.org/1999/xhtml\">"
DocA == XHTML_NS_TAG \o "<body><p>Hi</p></body></html>"
DocB == XHTML_NS_TAG \o "<body><p>Ho</p><img src=\"a.txt\"/></body></html>"
DocC == "<html><body>R&D <img src=\"img/cover.png\"><br></body></html>"
DocD == XHTML_NS_TAG \o "<body><a href=\"#top\">x</a><a HREF='http://e.org/'>y</a>"
        \o "<img src=\"no.png\"/><img src=\"no.png\"/></body></html>"

XmlDocs ==
    { Tree(ContainerOk, TRUE, "", << Rootfile("content.opf", "") >>, << >>, << >>),
      Tree(ContainerAlt, TRUE, "", << Rootfile("", "./content.opf") >>, << >>, << >>),
      Tree(ContainerOther, TRUE, "", << Rootfile("OEBPS/content.opf", "") >>, << >>, << >>),
      Tree(ContainerEmpty, TRUE, "", << >>, << >>, << >>),
      Tree(OpfOk, TRUE, OPF_NS, << >>, ItemsOk, << "c1", "a" >>),
      Tree(OpfBare, TRUE, "", << >>, ItemsOk, << "c1", "a" >>),
      Tree(OpfGhost, TRUE, OPF_NS, << >>, ItemsGhost, << "c1", "a", "g" >>),
      Tree(OpfMedia, TRUE, OPF_NS, << >>, ItemsMedia, << "c1", "a" >>),
      Tree(OpfSwap, TRUE, OPF_NS, << >>, ItemsOk, << "a", "c1" >>),
      Tree(OpfShort, TRUE, OPF_NS, << >>, ItemsDot, << "c1", "zz" >>),
      Tree(DocA, TRUE, "http://www.w3.org/1999/xhtml", << >>, << >>, << >>),
      Tree(DocB, TRUE, "http://www.w3.org/1999/xhtml", << >>, << >>, << >>),
      Tree(DocD, TRUE, "http://www.w3.org/1999/xhtml", << >>, << >>, << >>) }

\* ET.fromstring: every other text of the model (ContainerBad, OpfBad, DocC, the
\* payloads that are no XML) raises ParseError
ET_fromstring(text) ==
    IF \E d \in XmlDocs : d.text = text
    THEN CHOOSE d \in XmlDocs : d.text = text
    ELSE Tree(text, FALSE, "", << >>, << >>, << >>)

\* hashlib.sha1(b).hexdigest()[:10] of the payloads the archives hold
Sha1Table ==
    { << ContainerOk, "3d9d6d46a4" >>, << ContainerAlt, "d3f3dd2eb2" >>,
      << ContainerOther, "3ceb3a5d5f" >>, << ContainerEmpty, "84d8f0992d" >>,
      << ContainerBad, "65e1b82025" >>, << OpfOk, "6366de91c2" >>,
      << OpfBare, "1ca84a7d5b" >>, << OpfBad, "5d6dffbcf6" >>,
      << OpfGhost, "91b9bcc635" >>, << OpfMedia, "bef0a52670" >>,
      << OpfSwap, "88451982ab" >>, << OpfShort, "75fee058ae" >>,
      << DocA, "3128df32fe" >>, << DocB, "c3604f6860" >>, << DocC, "94b9bdc62c" >>,
      << DocD, "76c1ef57ea" >>, << MIME, "8cae3584d3" >>,
      << MIME \o "\n", "7ae0ee3696" >>, << HiByte \o MIME, "50e95ad5d4" >>,
      << "text/plain", "f919d9f152" >>,
      << "x", "11f6ad8ec5" >>, << "y", "95cb0bfd29" >>, << "", "da39a3ee5e" >> }

sha1_hexdigest_10(b) == (CHOOSE e \in Sha1Table : e[1] = b)[2]

\* ------------------------------------------------------ container and OPF

\* a or b, for two attribute values that are '' when absent
Or(a, b) == IF a # "" THEN a ELSE b

\* lines 49-50
rootfile_path(full) == IF full # "" THEN Some(normalize_path(full)) ELSE None

\* lines 46-50
first_rootfile(doc) ==
    IF ~doc.ok THEN None
    ELSE IF doc.rootfiles = << >> THEN None
    ELSE rootfile_path(Or(doc.rootfiles[1].full_path, doc.rootfiles[1].fullPath))

get_rootfile_from_container(xml_text) == first_rootfile(ET_fromstring(xml_text))

EmptyDict == [ k \in {} |-> "" ]
DictGet(d, k, default) == IF k \in DOMAIN d THEN d[k] ELSE default
DictSet(d, k, v) == [ x \in (DOMAIN d) \cup { k } |-> IF x = k THEN v ELSE d[x] ]

join_href(base_dir, href) == normalize_path(path_join(base_dir, href))

\* the manifest loop of parse_opf, one item after the other
\* lines 75-85, one item of the manifest
ManifestStep(acc, item, full) ==
    IF item.href = "" THEN acc
    ELSE [ manifest_paths |-> Append(acc.manifest_paths, full),
           manifest_map |-> IF item.media_type # ""
                            THEN DictSet(acc.manifest_map, full, item.media_type)
                            ELSE acc.manifest_map,
           id_to_href |-> IF item.id # "" THEN DictSet(acc.id_to_href, item.id, full)
                          ELSE acc.id_to_href ]

RECURSIVE ManifestLoop(_, _, _)
ManifestLoop(items, base_dir, acc) ==
    IF items = << >> THEN acc
    ELSE ManifestLoop(Tail(items), base_dir,
                      ManifestStep(acc, Head(items), join_href(base_dir, Head(items).href)))

\* lines 89-92, one itemref of the spine
SpineStep(full) == IF full # "" THEN << full >> ELSE << >>

RECURSIVE SpineLoop(_, _)
SpineLoop(itemrefs, id_to_href) ==
    IF itemrefs = << >> THEN << >>
    ELSE SpineStep(DictGet(id_to_href, Head(itemrefs), ""))
         \o SpineLoop(Tail(itemrefs), id_to_href)

\* parse_opf: [exc, value]; exc is the SyntaxError that findall raises for the
\* prefix opf when the root has no namespace and the prefix map is empty
\* lines 94-98
opf_result(doc, m) ==
    [ exc |-> None,
      value |-> [ manifest_paths |-> m.manifest_paths,
                  spine_paths |-> SpineLoop(doc.itemrefs, m.id_to_href),
                  manifest_map |-> m.manifest_map ] ]

\* lines 55-98 on the parsed document
parse_opf_doc(doc, base_dir) ==
    IF ~doc.ok
        THEN [ exc |-> None,
               value |-> [ manifest_paths |-> << >>, spine_paths |-> << >>,
                           manifest_map |-> EmptyDict ] ]
    ELSE IF doc.ns = ""
        THEN [ exc |-> Some("SyntaxError"), value |-> None ]
    ELSE opf_result(doc, ManifestLoop(doc.items, base_dir,
                           [ manifest_paths |-> << >>, manifest_map |-> EmptyDict,
                             id_to_href |-> EmptyDict ]))

parse_opf(opf_text, opf_path) ==
    parse_opf_doc(ET_fromstring(opf_text), normalize_path(dirname(opf_path)))

\* extract_opf: [exc, ctext, opf_rel, parsed]
\* line 153
extracted(ctext, opf_rel, r) ==
    [ exc |-> r.exc, ctext |-> Some(ctext), opf_rel |-> opf_rel,
      parsed |-> IF r.exc = None THEN Some(r.value) ELSE None ]

\* lines 149-153
extract_rootfile(zf, ctext, opf_rel) ==
    IF opf_rel = None \/ ~HasName(zf, opf_rel[1])
        THEN [ exc |-> None, ctext |-> Some(ctext), opf_rel |-> opf_rel, parsed |-> None ]
    ELSE extracted(ctext, opf_rel,
                   parse_opf(read_text_from_zip(zf, opf_rel[1], "utf-8"), opf_rel[1]))

\* lines 147-148
extract_container(zf, ctext) ==
    extract_rootfile(zf, ctext, get_rootfile_from_container(ctext))

extract_opf(zf) ==
    IF ~HasName(zf, "META-INF/container.xml")
        THEN [ exc |-> None, ctext |-> None, opf_rel |-> None, parsed |-> None ]
    ELSE extract_container(zf, read_text_from_zip(zf, "META-INF/container.xml", "utf-8"))


\* ------------------------------------------------------ find_html_issues

AlNum == Letters \cup Digits
WordChars == AlNum \cup { "_" }
Quotes == { "\"", "'" }

\* the length of the longest prefix of s made of characters of class
RunLen(s, class) == FirstIndex(LAMBDA i : Ch(s, i) \notin class, 1, Len(s)) - 1

\* s matches  class+ ;  at its start
RunThenSemicolon(s, class) ==
    RunLen(s, class) >= 1 /\ Ch(s, RunLen(s, class) + 1) = ";"

\* s, the text after an ampersand, matches  #\d+; | #x[0-9A-Fa-f]+; | [A-Za-z][A-Za-z0-9]+;
IsCharRef(s) ==
    \/ startswith(s, "#") /\ RunThenSemicolon(From(s, 1), Digits)
    \/ startswith(s, "#x") /\ RunThenSemicolon(From(s, 2), HexDigits)
    \/ s # "" /\ Ch(s, 1) \in Letters /\ RunThenSemicolon(From(s, 1), AlNum)

\* re.findall(r'&(?!...)', text) is not empty
bad_amp(text) ==
    \E i \in 1..Len(text) : Ch(text, i) = "&" /\ ~IsCharRef(From(text, i))

\* r'\b[^>]*(?<!/)>' matches after an opening '<tag' of length n at the start of
\* rest: j is where the first '>' after it is found
TagOpenEnds(rest, n, j) ==
    /\ Ch(rest, n + 1) \notin WordChars
    /\ j # -1
    /\ Ch(rest, n + j) # "/"

\* re.search(r'<tag\b[^>]*(?<!/)>', text, re.IGNORECASE), tag being img, br or hr
not_self_closed(text, tag) ==
    \E i \in 0..(Len(text) - 1) :
        /\ lower(SubSeq(text, i + 1, Min(i + 1 + Len(tag), Len(text)))) = "<" \o tag
        /\ TagOpenEnds(From(text, i), 1 + Len(tag), find(From(text, i + 1 + Len(tag)), ">"))

\* re.match(r'^[a-zA-Z][a-zA-Z0-9+.-]*:', href)
has_scheme(href) ==
    /\ href # ""
    /\ Ch(href, 1) \in Letters
    /\ Ch(href, 2 + RunLen(From(href, 1), AlNum \cup { "+", ".", "-" })) = ":"

\* r'["\']([^"\']+)["\']' tried on body, which starts at offset at of the text:
\* n is the length of the run of characters that are no quotes after the first
QuotedValue(body, at, n) ==
    IF Ch(body, 1) \in Quotes /\ n >= 1 /\ Ch(body, n + 2) \in Quotes
    THEN [ ok |-> TRUE, group |-> SubSeq(body, 2, n + 1), end |-> at + n + 2 ]
    ELSE [ ok |-> FALSE, group |-> "", end |-> 0 ]

\* the length of r'(?:src|href)=' where it matches at the start of low, else 0
AttrNameLen(low) ==
    IF startswith(low, "src=") THEN 4 ELSE IF startswith(low, "href=") THEN 5 ELSE 0

AttrValueAt(text, at) ==
    QuotedValue(From(text, at), at, RunLen(From(text, at + 1), CharSet \ Quotes))

AttrMatchK(text, i, k) ==
    IF k = 0 THEN [ ok |-> FALSE, group |-> "", end |-> 0 ] ELSE AttrValueAt(text, i + k)

\* r'(?:src|href)=["\']([^"\']+)["\']' with re.IGNORECASE tried at text[i:]:
\* whether it matches, its group, and the offset just past the match
AttrMatch(text, i) ==
    AttrMatchK(text, i, AttrNameLen(lower(SubSeq(text, i + 1, Min(i + 5, Len(text))))))

\* re.finditer(that pattern, text): the groups of the matches, leftmost first,
\* each search resuming where the match before it ended
RECURSIVE attr_values_from(_, _)
AttrFound(text, m) == << m.group >> \o attr_values_from(text, m.end)
AttrNext(text, i) == IF i > Len(text) - 1 THEN << >> ELSE AttrFound(text, AttrMatch(text, i))
attr_values_from(text, pos) ==
    AttrNext(text, FirstIndex(LAMBDA j : AttrMatch(text, j).ok, pos, Len(text) - 1))

attr_values(text) == attr_values_from(text, 0)

\* line 272-273
missing_resource(full, zip_names) ==
    IF full \notin zip_names THEN << "missing referenced resource: " \o full >> ELSE << >>

\* lines 268-273 with the reference looked up as written, without base_dir
check_resource_unresolved(href, base_dir, zip_names) ==
    IF href = "" \/ startswith(href, "#") \/ has_scheme(href) THEN << >>
    ELSE missing_resource(normalize_path(href), zip_names)

\* lines 268-273, one match
check_resource(href, base_dir, zip_names) ==
    IF href = "" \/ startswith(href, "#") \/ has_scheme(href) THEN << >>
    ELSE missing_resource(normalize_path(path_join(base_dir, href)), zip_names)

\* the resource existence loop of find_html_issues
RECURSIVE missing_resources(_, _, _)
missing_resources(hrefs, base_dir, zip_names) ==
    IF hrefs = << >> THEN << >>
    ELSE check_resource(strip(Head(hrefs)), base_dir, zip_names)
         \o missing_resources(Tail(hrefs), base_dir, zip_names)

If(c, lines) == IF c THEN lines ELSE << >>

\* lower.split('>', 1)[0]
BeforeFirst(low, i) == IF i = -1 THEN low ELSE Upto(low, i)

\* lines 247-278 with lower = text.lower()
html_issues_of(path, text, low, is_xhtml, zip_names) ==
    If(is_xhtml /\ contains(low, "<html")
       /\ ~contains(BeforeFirst(low, find(low, ">")), "xmlns="),
       << "missing xmlns on <html>" >>)
    \o If(bad_amp(text), << "unescaped & found" >>)
    \o If(is_xhtml /\ not_self_closed(text, "img"), << "xhtml <img> not self-closed" >>)
    \o If(is_xhtml /\ not_self_closed(text, "br"), << "xhtml <br> not self-closed" >>)
    \o If(is_xhtml /\ not_self_closed(text, "hr"), << "xhtml <hr> not self-closed" >>)
    \o missing_resources(attr_values(text), normalize_path(dirname(path)), zip_names)
    \o If(/\ startswith(lower(basename(path)), "toc")
          /\ \/ ~contains(low, "nav")
             \/ (~contains(low, "epub:type=\"toc\"") /\ ~contains(low, "role=\"doc-toc\"")),
          << "toc.xhtml: missing <nav epub:type=\"toc\"> or role=\"doc-toc\"" >>)

find_html_issues(path, text, is_xhtml, zip_names) ==
    html_issues_of(path, text, lower(text), is_xhtml, zip_names)

\* ---------------------------------------------------------- compare_epub

DISPLAY_CAP == 50       \* missing[:50], extra[:50], xhtml_common[:50], changed[:50], html_issues[:50]
XHTML_SAMPLE == 20      \* bad_xhtml[:20]
HTML_DOC_CAP == 20      \* changed_html_paths[:20]
NON_HTML_SAMPLE == 10   \* non_html_changed[:10]

orig_path == "orig.epub"
trans_path == "tran.epub"

\* ', '.join(xs[:cap]) + (' ...' if len(xs) > cap else '')
CapLine(xs, cap) == join(", ", Take(xs, cap)) \o (IF Len(xs) > cap THEN " ..." ELSE "")

\* repr() of a str
ReprSingle == [ c \in CharSet |->
    CASE c = "\\" -> "\\\\" [] c = "'" -> "\\'" [] c = "\n" -> "\\n"
      [] c = "\t" -> "\\t" [] c = "\r" -> "\\r" [] OTHER -> c ]
ReprDouble == [ c \in CharSet |-> IF c = "'" THEN c ELSE ReprSingle[c] ]
repr(str) ==
    IF contains(str, "'") /\ ~contains(str, "\"")
    THEN "\"" \o MapChars(ReprDouble, str) \o "\""
    ELSE "'" \o MapChars(ReprSingle, str) \o "'"

PyBool(b) == IF b THEN "True" ELSE "False"
PyOpt(x) == IF x = None THEN "None" ELSE x[1]

\* line 117
MissingOf(n_o, n_t) == sorted(Range(n_o) \ Range(n_t))
\* line 118 written with the operands of line 117
ExtraOfCopied(n_o, n_t) == sorted(Range(n_o) \ Range(n_t))

\* line 118
ExtraOf(n_o, n_t) == sorted(Range(n_t) \ Range(n_o))

\* lines 103-104, 113-115
header_lines(n_o, n_t) ==
    << "ORIG: " \o orig_path, "TRAN: " \o trans_path, "== FILE COUNTS ==",
       "orig files: " \o ToString(Len(n_o)), "tran files: " \o ToString(Len(n_t)) >>

\* lines 119-124
file_set_lines(mis, ext) ==
    If(mis # << >>, << "Missing in translated:", CapLine(mis, DISPLAY_CAP) >>)
    \o If(ext # << >>, << "Extra in translated:", CapLine(ext, DISPLAY_CAP) >>)

FileSetDiffOf(n_o, n_t) ==
    /\ names_o' = n_o
    /\ names_t' = n_t
    /\ missing' = MissingOf(n_o, n_t)
    /\ extra' = ExtraOf(n_o, n_t)
    /\ report_lines' = header_lines(n_o, n_t)
                       \o file_set_lines(MissingOf(n_o, n_t), ExtraOf(n_o, n_t))

\* lines 102-124: the header, the listings, the file counts, the file set diff
FileSetDiff ==
    /\ pc = "start"
    /\ FileSetDiffOf(zip_namelist_files(zo), zip_namelist_files(zt))
    /\ pc' = "mimetype_orig"
    /\ UNCHANGED << zo, zt, raised, opf_o_rel, opf_t_rel, opf_o, opf_t, man_missing,
                    man_extra, diff_idx, mt_diffs, changed, non_html_changed,
                    changed_html_paths, changed_blobs_t, html_issues, raw_names,
                    listing, spine_o, spine_t, spine_idx, doc_path, doc_text,
                    doc_names, doc_issues, doc_refs >>

\* lines 136-141: the three checks on a mimetype entry that was read
mimetype_errors(label, content, is_first, compress) ==
    If(content # MIME, << "[" \o label \o "] ERROR: mimetype content invalid" >>)
    \o If(~is_first, << "[" \o label \o "] ERROR: mimetype is not first" >>)
    \o If(compress # ZIP_STORED,
          << "[" \o label \o "] ERROR: mimetype must be STORED (no compression)" >>)

\* lines 135-141
mimetype_lines(label, content, is_first, compress) ==
    << "[" \o label \o "] mimetype content: " \o repr(content)
       \o ", first=" \o PyBool(is_first) \o ", compress_type=" \o ToString(compress) >>
    \o mimetype_errors(label, content, is_first, compress)

\* lines 128-141, one turn of the loop: [exc, lines]. getinfo looks the entry up
\* under its raw name and raises KeyError when only the normalized name is 'mimetype'
mimetype_check(label, zf, names) ==
    IF "mimetype" \notin Range(names)
        THEN [ exc |-> None, lines |-> << "[" \o label \o "] missing mimetype file" >> ]
    ELSE IF ~HasName(zf, "mimetype")
        THEN [ exc |-> Some("KeyError"), lines |-> << >> ]
    ELSE [ exc |-> None,
           lines |-> mimetype_lines(label,
                        strip(read_text_from_zip(zf, "mimetype", "ascii")),
                        IF names # << >> THEN names[1] = "mimetype" ELSE FALSE,
                        getinfo(zf, "mimetype").compress_type) ]

MimetypeResult(label, r) ==
    IF r.exc # None
    THEN /\ raised' = r.exc
         /\ pc' = "done"
         /\ UNCHANGED report_lines
    ELSE /\ report_lines' = report_lines \o r.lines
         /\ pc' = IF label = "orig" THEN "mimetype_tran" ELSE "extract"
         /\ UNCHANGED raised

\* lines 127-141, the turn of the loop for label
MimetypeCheck(label) ==
    /\ pc = "mimetype_" \o label
    /\ MimetypeResult(label, IF label = "orig" THEN mimetype_check(label, zo, names_o)
                             ELSE mimetype_check(label, zt, names_t))
    /\ UNCHANGED << zo, zt, names_o, names_t, missing, extra, opf_o_rel, opf_t_rel,
                    opf_o, opf_t, man_missing, man_extra, diff_idx, mt_diffs, changed,
                    non_html_changed, changed_html_paths, changed_blobs_t, html_issues,
                    raw_names, listing, spine_o, spine_t, spine_idx, doc_path,
                    doc_text, doc_names, doc_issues, doc_refs >>

ExtractResult(x_o, x_t) ==
    IF x_o.exc # None \/ x_t.exc # None
    THEN /\ raised' = IF x_o.exc # None THEN x_o.exc ELSE x_t.exc
         /\ pc' = "done"
         /\ UNCHANGED << report_lines, opf_o_rel, opf_t_rel, opf_o, opf_t >>
    ELSE /\ opf_o_rel' = x_o.opf_rel
         /\ opf_t_rel' = x_t.opf_rel
         /\ opf_o' = x_o.parsed
         /\ opf_t' = x_t.parsed
         /\ report_lines' = report_lines
              \o << "== OPF PATHS ==",
                    "orig OPF: " \o PyOpt(x_o.opf_rel),
                    "tran OPF: " \o PyOpt(x_t.opf_rel) >>
              \o If(x_o.opf_rel # x_t.opf_rel,
                    << "ERROR: OPF path differs between original and translated" >>)
         /\ pc' = "opf"
         /\ UNCHANGED raised

\* lines 155-162: extract_opf of both archives, the OPF PATHS section
ExtractOpf ==
    /\ pc = "extract"
    /\ ExtractResult(extract_opf(zo), extract_opf(zt))
    /\ UNCHANGED << zo, zt, names_o, names_t, missing, extra, man_missing, man_extra,
                    diff_idx, mt_diffs, changed, non_html_changed, changed_html_paths,
                    changed_blobs_t, html_issues, raw_names, listing, spine_o, spine_t,
                    spine_idx, doc_path, doc_text, doc_names, doc_issues, doc_refs >>

\* lines 188-193: the scan for the first index at which the reading orders differ
RECURSIVE spine_scan(_, _, _, _)
spine_scan(s_o, s_t, i, min_len) ==
    IF i >= min_len THEN -1
    ELSE IF s_o[i + 1] # s_t[i + 1] THEN i
    ELSE spine_scan(s_o, s_t, i + 1, min_len)

\* lines 188-193 with the scan started at index 1
first_spine_diff_from_one(s_o, s_t) == spine_scan(s_o, s_t, 1, Min(Len(s_o), Len(s_t)))

first_spine_diff(s_o, s_t) == spine_scan(s_o, s_t, 0, Min(Len(s_o), Len(s_t)))

\* the orders in which a for loop may walk a set
Orderings(S) == { f \in [ 1..Cardinality(S) -> S ] : Range(f) = S }

\* lines 179-182, one common path
media_type_line(p, mt_o, mt_t) ==
    If(mt_o # mt_t, << "MEDIA-TYPE DIFF: " \o p \o ": " \o mt_o \o " vs " \o mt_t >>)

RECURSIVE media_type_lines(_, _, _)
media_type_lines(common, map_o, map_t) ==
    IF common = << >> THEN << >>
    ELSE media_type_line(Head(common), DictGet(map_o, Head(common), ""),
                         DictGet(map_t, Head(common), ""))
         \o media_type_lines(Tail(common), map_o, map_t)

\* lines 165-168, 177
manifest_missing(o, t) == sorted(Range(o.manifest_paths) \ Range(t.manifest_paths))
manifest_extra(o, t) == sorted(Range(t.manifest_paths) \ Range(o.manifest_paths))
manifest_common(o, t) == sorted(Range(o.manifest_paths) \cap Range(t.manifest_paths))

\* lines 169-174
manifest_lines(mm, me) ==
    If(mm # << >>, << "Manifest missing in translated:", CapLine(mm, DISPLAY_CAP) >>)
    \o If(me # << >>, << "Manifest extra in translated:", CapLine(me, DISPLAY_CAP) >>)

\* lines 187, 194
spine_lines(s_o, s_t, d) ==
    << "SPINE length: " \o ToString(Len(s_o)) \o " vs " \o ToString(Len(s_t)),
       "FIRST SPINE DIFF INDEX: " \o ToString(d) >>

\* lines 197-202, the paths in the order in which the loop met them
existence_lines(label, ord) ==
    [ i \in 1..Len(ord) |-> label \o " manifest references missing file in zip: " \o ord[i] ]

\* lines 208-212: the translated text of p cannot be read or is not well-formed
is_bad_xhtml(p) == ~HasName(zt, p) \/ ~ET_fromstring(read_text_from_zip(zt, p, "utf-8")).ok

\* lines 213-215
bad_xhtml_lines(bad_xhtml) ==
    If(bad_xhtml # << >>,
       << "Translated XHTML not well-formed (sample):", CapLine(bad_xhtml, XHTML_SAMPLE) >>)

\* lines 205-215
wellformed_lines(o, common) ==
    bad_xhtml_lines(SelectSeq(
        Take(SelectSeq(common, LAMBDA p : DictGet(o.manifest_map, p, "") = XHTML),
             DISPLAY_CAP),
        is_bad_xhtml))

\* lines 165-215 for two parsed package documents
OpfCompareBoth(o, t) ==
    /\ man_missing' = Some(manifest_missing(o, t))
    /\ man_extra' = Some(manifest_extra(o, t))
    /\ diff_idx' = Some(first_spine_diff(o.spine_paths, t.spine_paths))
    /\ \E ord_o \in Orderings(Range(o.manifest_paths) \ Range(names_o)),
          ord_t \in Orderings(Range(t.manifest_paths) \ Range(names_t)) :
         report_lines' = report_lines
           \o manifest_lines(manifest_missing(o, t), manifest_extra(o, t))
           \o media_type_lines(manifest_common(o, t), o.manifest_map, t.manifest_map)
           \o spine_lines(o.spine_paths, t.spine_paths,
                          first_spine_diff(o.spine_paths, t.spine_paths))
           \o existence_lines("ORIG", ord_o)
           \o existence_lines("TRAN", ord_t)
           \o wellformed_lines(o, manifest_common(o, t))

\* lines 164-215: manifest, media types, spine, existence, well-formedness
OpfCompare ==
    /\ pc = "opf"
    /\ IF opf_o # None /\ opf_t # None
       THEN OpfCompareBoth(opf_o[1], opf_t[1])
       ELSE UNCHANGED << man_missing, man_extra, diff_idx, report_lines >>
    /\ pc' = "content"
    /\ UNCHANGED << zo, zt, raised, names_o, names_t, missing, extra, opf_o_rel,
                    opf_t_rel, opf_o, opf_t, mt_diffs, changed, non_html_changed,
                    changed_html_paths, changed_blobs_t, html_issues, raw_names,
                    listing, spine_o, spine_t, spine_idx, doc_path, doc_text,
                    doc_names, doc_issues, doc_refs >>

\* line 235: a changed path goes to non_html_changed, otherwise to changed_html_paths
is_non_html(p) ==
    /\ ~(endswith(lower(p), ".html") \/ endswith(lower(p), ".xhtml"))
    /\ p # "mimetype"

\* line 234
changed_line(p, b_o, b_t) ==
    p \o "  (" \o ToString(Len(b_o)) \o " -> " \o ToString(Len(b_t)) \o " bytes)  "
    \o sha1_hexdigest_10(b_o) \o " -> " \o sha1_hexdigest_10(b_t)

\* lines 230-239, one common path that was read on both sides
content_step(acc, p, b_o, b_t, non_html) ==
    IF b_o = b_t THEN acc
    ELSE [ changed |-> Append(acc.changed, changed_line(p, b_o, b_t)),
           non_html |-> IF non_html THEN Append(acc.non_html, p) ELSE acc.non_html,
           html |-> IF non_html THEN acc.html ELSE Append(acc.html, p),
           blobs |-> IF non_html THEN acc.blobs ELSE DictSet(acc.blobs, p, b_t) ]

\* lines 225-239, one common path: a KeyError of either read skips the path
content_path(acc, p) ==
    IF ~HasName(zo, p) \/ ~HasName(zt, p) THEN acc
    ELSE content_step(acc, p, zread(zo, p), zread(zt, p), is_non_html(p))

\* lines 224-239: the loop over the common paths
RECURSIVE content_loop(_, _)
content_loop(paths, acc) ==
    IF paths = << >> THEN acc
    ELSE content_loop(Tail(paths), content_path(acc, Head(paths)))

ContentResult(r) ==
    /\ changed' = r.changed
    /\ non_html_changed' = r.non_html
    /\ changed_html_paths' = r.html
    /\ changed_blobs_t' = r.blobs
    /\ report_lines' = report_lines
         \o << "== COMMON FILE CONTENT DIFF (first 50) ==" >>
         \o (IF r.changed # << >> THEN Take(r.changed, DISPLAY_CAP)
             ELSE << "no content diffs" >>)

\* lines 217-243
ContentDiff ==
    /\ pc = "content"
    /\ ContentResult(content_loop(sorted(Range(names_o) \cap Range(names_t)),
                       [ changed |-> << >>, non_html |-> << >>, html |-> << >>,
                         blobs |-> EmptyDict ]))
    /\ pc' = "html"
    /\ UNCHANGED << zo, zt, raised, names_o, names_t, missing, extra, opf_o_rel,
                    opf_t_rel, opf_o, opf_t, man_missing, man_extra, diff_idx, mt_diffs,
                    html_issues, raw_names, listing, spine_o, spine_t, spine_idx,
                    doc_path, doc_text, doc_names, doc_issues, doc_refs >>

\* line 286
prefixed(p, issues) == [ i \in 1..Len(issues) |-> p \o ": " \o issues[i] ]

\* lines 282-286: the issues of the changed markup documents, each prefixed
RECURSIVE html_loop(_, _, _)
html_loop(paths, blobs, zip_names_set) ==
    IF paths = << >> THEN << >>
    ELSE prefixed(Head(paths),
                  find_html_issues(Head(paths), decode_utf8_replace(blobs[Head(paths)]),
                                   endswith(lower(Head(paths)), ".xhtml"), zip_names_set))
         \o html_loop(Tail(paths), blobs, zip_names_set)

HtmlResult(issues) ==
    /\ html_issues' = issues
    /\ report_lines' = report_lines
         \o If(issues # << >>,
               << "== XHTML/HTML ISSUES (translated, sample) ==" >>
               \o Take(issues, DISPLAY_CAP))

\* lines 280-290
HtmlIssues ==
    /\ pc = "html"
    /\ HtmlResult(html_loop(Take(changed_html_paths, HTML_DOC_CAP), changed_blobs_t,
                            Range(names_t)))
    /\ pc' = "summary"
    /\ UNCHANGED << zo, zt, raised, names_o, names_t, missing, extra, opf_o_rel,
                    opf_t_rel, opf_o, opf_t, man_missing, man_extra, diff_idx, mt_diffs,
                    changed, non_html_changed, changed_html_paths, changed_blobs_t,
                    raw_names, listing, spine_o, spine_t, spine_idx, doc_path, doc_text,
                    doc_names, doc_issues, doc_refs >>

HINT == "Structures and non-HTML content identical. If Apple Books fails, likely malformed HTML/XHTML content."

\* line 301
count_mt_diffs(o, t) ==
    Cardinality({ p \in Range(o.manifest_paths) \cap Range(t.manifest_paths) :
                    DictGet(o.manifest_map, p, "") # DictGet(t.manifest_map, p, "") })

\* line 310 reads man_missing, which is bound only inside 'if opf_o and opf_t':
\* with no file set difference, equal rootfile paths, a parsed original package
\* and no translated one, the read raises UnboundLocalError
summary_raises ==
    /\ missing = << >> /\ extra = << >>
    /\ opf_o_rel = opf_t_rel
    /\ opf_o # None
    /\ man_missing = None

\* line 310, where it is evaluated without raising
hint_condition(mt) ==
    /\ missing = << >> /\ extra = << >>
    /\ opf_o_rel = opf_t_rel
    /\ \/ opf_o = None
       \/ /\ man_missing[1] = << >> /\ man_extra[1] = << >> /\ diff_idx[1] = -1
          /\ Len(opf_o[1].spine_paths) = Len(opf_t[1].spine_paths)
          /\ (IF opf_o # None /\ opf_t # None THEN mt ELSE 0) = 0
    /\ non_html_changed = << >>

\* lines 293-311 with both = (opf_o and opf_t) and mt = mt_diffs, 0 when unbound
summary_lines(both, mt) ==
    << "== SUMMARY ==" >>
    \o If(missing # << >> \/ extra # << >>, << "Files set differs (missing/extra)." >>)
    \o If(opf_o_rel # opf_t_rel, << "OPF rootfile path differs." >>)
    \o If(both /\ (man_missing[1] # << >> \/ man_extra[1] # << >>),
          << "OPF manifest differs." >>)
    \o If(both /\ mt # 0, << "Media-type differs for " \o ToString(mt) \o " file(s)." >>)
    \o If(both /\ (\/ diff_idx[1] # -1
                   \/ Len(opf_o[1].spine_paths) # Len(opf_t[1].spine_paths)),
          << "OPF spine order/length differs." >>)
    \o If(non_html_changed # << >>,
          << "Non-HTML changed files (sample): "
             \o join(", ", Take(non_html_changed, NON_HTML_SAMPLE)) >>)
    \o If(html_issues # << >>, << "HTML/XHTML issues detected (see above)." >>)
    \o If(~summary_raises /\ hint_condition(mt), << HINT >>)

SummaryOf(both, mt) ==
    /\ mt_diffs' = IF both THEN Some(mt) ELSE None
    /\ raised' = IF summary_raises THEN Some("UnboundLocalError") ELSE None
    /\ report_lines' = report_lines \o summary_lines(both, mt)

\* lines 293-313
Summary ==
    /\ pc = "summary"
    /\ SummaryOf(opf_o # None /\ opf_t # None,
                 IF opf_o # None /\ opf_t # None THEN count_mt_diffs(opf_o[1], opf_t[1])
                 ELSE 0)
    /\ pc' = "done"
    /\ UNCHANGED << zo, zt, names_o, names_t, missing, extra, opf_o_rel, opf_t_rel,
                    opf_o, opf_t, man_missing, man_extra, diff_idx, changed,
                    non_html_changed, changed_html_paths, changed_blobs_t, html_issues,
                    raw_names, listing, spine_o, spine_t, spine_idx, doc_path, doc_text,
                    doc_names, doc_issues, doc_refs >>

\* ------------------------------------------------------------ the inputs

Entry(n, d, c) == [ filename |-> n, data |-> d, compress_type |-> c ]

\* An archive lists, in this order and each of them optional: a directory
\* entry, the mimetype entry (when it comes first), container.xml, the package
\* document, a content document, a text file, the mimetype entry (when last).
Slots == { "lead", "mime", "container", "opf", "doc", "other" }

LeadOpts == { << >>, << Entry("META-INF/", "", ZIP_STORED) >> }
MimeOpts ==
    { [ first |-> TRUE, e |-> << >> ],
      [ first |-> TRUE, e |-> << Entry("./mimetype", MIME, ZIP_STORED) >> ],
      [ first |-> TRUE, e |-> << Entry("mimetype", HiByte \o MIME, ZIP_STORED) >> ] }
    \cup { [ first |-> f, e |-> << Entry("mimetype", d, c) >> ] :
             f \in BOOLEAN, d \in { MIME, MIME \o "\n", "text/plain" }, c \in { ZIP_STORED, 8 } }
ContainerOpts ==
    { << >> } \cup { << Entry("META-INF/container.xml", d, 8) >> :
                       d \in { ContainerOk, ContainerAlt, ContainerOther, ContainerEmpty,
                               ContainerBad } }
OpfOpts ==
    { << >>, << Entry("./content.opf", OpfOk, 8) >> }
    \cup { << Entry("content.opf", d, 8) >> :
             d \in { OpfOk, OpfBare, OpfBad, OpfGhost, OpfMedia, OpfSwap, OpfShort } }
DocOpts == { << >> } \cup { << Entry("ch1.xhtml", d, 8) >> : d \in { DocA, DocB, DocC, DocD } }
OtherOpts ==
    { << >>, << Entry("z.txt", "x", 8), Entry("b.txt", "y", 8) >> }
    \cup { << Entry(n, d, 8) >> : n \in { "a.txt", "./a.txt" }, d \in { "x", "y" } }

Opts == [ lead |-> LeadOpts, mime |-> MimeOpts, container |-> ContainerOpts,
          opf |-> OpfOpts, doc |-> DocOpts, other |-> OtherOpts ]

\* the well-formed EPUB
Default == [ lead |-> << >>,
             mime |-> [ first |-> TRUE, e |-> << Entry("mimetype", MIME, ZIP_STORED) >> ],
             container |-> << Entry("META-INF/container.xml", ContainerOk, 8) >>,
             opf |-> << Entry("content.opf", OpfOk, 8) >>,
             doc |-> << Entry("ch1.xhtml", DocA, 8) >>,
             other |-> << Entry("a.txt", "x", 8) >> ]

Archive(c) ==
    c.lead \o (IF c.mime.first THEN c.mime.e ELSE << >>) \o c.container \o c.opf
    \o c.doc \o c.other \o (IF c.mime.first THEN << >> ELSE c.mime.e)

\* the number of slots in which a pair of archives may depart from Default
MaxVaried == 1

OptsIn(slot, S) == IF slot \in S THEN Opts[slot] ELSE { Default[slot] }
ChoicesVarying(S) ==
    [ lead : OptsIn("lead", S), mime : OptsIn("mime", S),
      container : OptsIn("container", S), opf : OptsIn("opf", S),
      doc : OptsIn("doc", S), other : OptsIn("other", S) ]

\* the pairs of archives that depart from Default in at most k slots
ArchivePairs(k) ==
    UNION { { << Archive(co), Archive(ct) >> :
                co \in ChoicesVarying(S), ct \in ChoicesVarying(S) } :
            S \in { T \in SUBSET Slots : Cardinality(T) <= k } }

\* the variables of the specifications that do not run compare_epub
IdleCompare ==
    /\ zo = << >> /\ zt = << >> /\ pc = "idle" /\ raised = None
    /\ report_lines = << >> /\ names_o = << >> /\ names_t = << >>
    /\ missing = << >> /\ extra = << >>
    /\ opf_o_rel = None /\ opf_t_rel = None /\ opf_o = None /\ opf_t = None
    /\ man_missing = None /\ man_extra = None /\ diff_idx = None /\ mt_diffs = None
    /\ changed = << >> /\ non_html_changed = << >> /\ changed_html_paths = << >>
    /\ changed_blobs_t = EmptyDict /\ html_issues = << >>
IdleNames == raw_names = << >> /\ listing = None
IdleSpine == spine_o = << >> /\ spine_t = << >> /\ spine_idx = None
IdleHtml ==
    /\ doc_path = "" /\ doc_text = "" /\ doc_names = {} /\ doc_issues = None
    /\ doc_refs = << >>

\* compare_epub(orig_path, trans_path) is entered with both archives opened
Init ==
    /\ \E pair \in ArchivePairs(MaxVaried) : zo = pair[1] /\ zt = pair[2]
    /\ pc = "start" /\ raised = None
    /\ report_lines = << >> /\ names_o = << >> /\ names_t = << >>
    /\ missing = << >> /\ extra = << >>
    /\ opf_o_rel = None /\ opf_t_rel = None /\ opf_o = None /\ opf_t = None
    /\ man_missing = None /\ man_extra = None /\ diff_idx = None /\ mt_diffs = None
    /\ changed = << >> /\ non_html_changed = << >> /\ changed_html_paths = << >>
    /\ changed_blobs_t = EmptyDict /\ html_issues = << >>
    /\ IdleNames /\ IdleSpine /\ IdleHtml

Next ==
    \/ FileSetDiff
    \/ MimetypeCheck("orig")
    \/ MimetypeCheck("tran")
    \/ ExtractOpf
    \/ OpfCompare
    \/ ContentDiff
    \/ HtmlIssues
    \/ Summary

Spec == Init /\ [][Next]_vars

\* ------------------------------------------ zip_namelist_files on raw names

\* the characters raw entry names are written with
NameChars == { "a", ".", "/", "\\", " " }
MaxNameLen == 5
MaxNames == 1

RECURSIVE StringsUpTo(_)
StringsUpTo(n) ==
    IF n = 0 THEN { "" }
    ELSE StringsUpTo(n - 1) \cup { s \o c : s \in StringsUpTo(n - 1), c \in NameChars }

RawNames == StringsUpTo(MaxNameLen) \ { "" }

InitNames ==
    /\ \E n \in 1..MaxNames : raw_names \in [ 1..n -> RawNames ]
    /\ listing = None
    /\ IdleCompare /\ IdleSpine /\ IdleHtml

\* lines 25-28 on the names z.namelist() returned
ListNames ==
    /\ listing = None
    /\ raw_names # << >>
    /\ listing' = Some(zip_namelist_files_from(raw_names))
    /\ UNCHANGED << zo, zt, pc, raised, report_lines, names_o, names_t, missing, extra,
                    opf_o_rel, opf_t_rel, opf_o, opf_t, man_missing, man_extra, diff_idx,
                    mt_diffs, changed, non_html_changed, changed_html_paths,
                    changed_blobs_t, html_issues, raw_names, spine_o, spine_t, spine_idx,
                    doc_path, doc_text, doc_names, doc_issues, doc_refs >>

NextNames == ListNames

SpecNames == InitNames /\ [][NextNames]_vars

\* ------------------------------------------------- the spine comparison

SpineIds == { "a", "b" }
MaxSpineLen == 3

SpineLists == UNION { [ 1..n -> SpineIds ] : n \in 0..MaxSpineLen }

InitSpine ==
    /\ spine_o \in SpineLists
    /\ spine_t \in SpineLists
    /\ spine_idx = None
    /\ IdleCompare /\ IdleNames /\ IdleHtml

\* lines 184-194 on two reading orders
SpineCompare ==
    /\ spine_idx = None
    /\ pc = "idle"
    /\ spine_idx' = Some(first_spine_diff(spine_o, spine_t))
    /\ UNCHANGED << zo, zt, pc, raised, report_lines, names_o, names_t, missing, extra,
                    opf_o_rel, opf_t_rel, opf_o, opf_t, man_missing, man_extra, diff_idx,
                    mt_diffs, changed, non_html_changed, changed_html_paths,
                    changed_blobs_t, html_issues, raw_names, listing, spine_o, spine_t,
                    doc_path, doc_text, doc_names, doc_issues, doc_refs >>

NextSpine == SpineCompare

SpecSpine == InitSpine /\ [][NextSpine]_vars

\* ------------------------------------------- find_html_issues on one document

DocPaths == { "ch1.xhtml", "text/ch1.xhtml" }
RefValues == { "img/cover.png", "a.txt", "../a.txt", "#top", "http://e.org/" }
ZipNames == { "img/cover.png", "text/img/cover.png", "a.txt", "text/a.txt" }
MaxRefs == 2

\* the i-th reference of a document, written as an attribute of a tag
RefTag(i, v) ==
    IF i % 2 = 1 THEN "<img src=\"" \o v \o "\"/>" ELSE "<a href='" \o v \o "'>x</a>"

RECURSIVE DocBody(_, _)
DocBody(refs, i) ==
    IF i > Len(refs) THEN "" ELSE RefTag(i, refs[i]) \o DocBody(refs, i + 1)

DocText(refs) == "<body>" \o DocBody(refs, 1) \o "</body>"

InitHtml ==
    /\ doc_path \in DocPaths
    /\ \E n \in 0..MaxRefs : doc_refs \in [ 1..n -> RefValues ]
    /\ doc_text = DocText(doc_refs)
    /\ doc_names \in SUBSET ZipNames
    /\ doc_issues = None
    /\ IdleCompare /\ IdleNames /\ IdleSpine

\* lines 283-286 for one changed markup document
ValidateDoc ==
    /\ doc_issues = None
    /\ doc_path # ""
    /\ doc_issues' = Some(find_html_issues(doc_path, doc_text,
                                           endswith(lower(doc_path), ".xhtml"), doc_names))
    /\ UNCHANGED << zo, zt, pc, raised, report_lines, names_o, names_t, missing, extra,
                    opf_o_rel, opf_t_rel, opf_o, opf_t, man_missing, man_extra, diff_idx,
                    mt_diffs, changed, non_html_changed, changed_html_paths,
                    changed_blobs_t, html_issues, raw_names, listing, spine_o, spine_t,
                    spine_idx, doc_path, doc_text, doc_names, doc_refs >>

NextHtml == ValidateDoc

SpecHtml == InitHtml /\ [][NextHtml]_vars

\* ------------------------------------------------------------ the claims

\* positions of compare_epub: the mimetype loop is past the original archive,
\* the loop is over (by its last turn or by an exception)
MimeOverOrig == pc \notin { "idle", "start", "mimetype_orig" }
MimeOver == pc \notin { "idle", "start", "mimetype_orig", "mimetype_tran" }
\* compare_epub reached its summary: it returned or raised there
Finished == pc = "done" /\ raised \in { None, Some("UnboundLocalError") }
OpfDone == pc \in { "content", "html", "summary" } \/ Finished
ContentDone == pc \in { "html", "summary" } \/ Finished

\* the report lines the mimetype loop wrote for one archive
LabelLines(label) == SelectSeq(report_lines, LAMBDA l : startswith(l, "[" \o label \o "] "))

MissingLine(label) == "[" \o label \o "] missing mimetype file"
ContentLine(label) == "[" \o label \o "] ERROR: mimetype content invalid"
FirstLine(label) == "[" \o label \o "] ERROR: mimetype is not first"
StoredLine(label) == "[" \o label \o "] ERROR: mimetype must be STORED (no compression)"

\* the entry an archive holds for a path of its listing
ListedEntry(z, p) ==
    z[CHOOSE i \in 1..Len(z) :
        /\ ~endswith(z[i].filename, "/")
        /\ normalize_path(z[i].filename) = p]

\* the bytes an archive holds for a path of its listing
Payload(z, p) == ListedEntry(z, p).data

\* the four invariants of the mimetype entry, read off the archive itself
EntryExists(z) == "mimetype" \in Range(zip_namelist_files(z))
ContentExact(z) ==
    EntryExists(z) /\ decode_ascii_ignore(Payload(z, "mimetype")) = MIME
FirstInArchive(z) ==
    /\ z # << >>
    /\ ~endswith(z[1].filename, "/")
    /\ normalize_path(z[1].filename) = "mimetype"
StoredUncompressed(z) ==
    EntryExists(z) /\ ListedEntry(z, "mimetype").compress_type = ZIP_STORED

\* C1: for any two archives that open as ZIP containers compare_epub never
\* raises: every non-fatal condition ends in report lines, not in an exception.
C1_NeverRaises == raised = None

\* for one archive: each of the four invariants (the entry exists, its decoded
\* content is exactly the MIME string, it is the first entry of the archive, it
\* is stored uncompressed) has its error line exactly when it is violated
AllFourRun(label, z) ==
    /\ MissingLine(label) \in Range(LabelLines(label)) <=> ~EntryExists(z)
    /\ ContentLine(label) \in Range(LabelLines(label)) <=> ~ContentExact(z)
    /\ FirstLine(label) \in Range(LabelLines(label)) <=> ~FirstInArchive(z)
    /\ StoredLine(label) \in Range(LabelLines(label)) <=> ~StoredUncompressed(z)

\* C2: for each archive independently all four bootstrap checks on the mimetype
\* entry always run, and each violated invariant produces its own error line
\* regardless of the outcome of the other three.
C2_AllFourAlwaysRun ==
    /\ MimeOverOrig => AllFourRun("orig", zo)
    /\ MimeOver => AllFourRun("tran", zt)

IsMarkupPath(p) == endswith(lower(p), ".html") \/ endswith(lower(p), ".xhtml")

\* C3: every changed common file is in exactly one bucket, markup iff its path
\* ends in .html or .xhtml whatever the case; a changed 'mimetype' is never in
\* the markup bucket and so never reaches the markup validator.
C3_MarkupBucketByExtension ==
    ContentDone =>
        /\ \A p \in Range(changed_html_paths) : IsMarkupPath(p)
        /\ \A p \in Range(non_html_changed) : ~IsMarkupPath(p)
        /\ Range(changed_html_paths) \cap Range(non_html_changed) = { }
        /\ "mimetype" \notin Range(changed_html_paths)

Unresolved(opf, names) == Range(opf[1].manifest_paths) \ Range(names)
ExistenceLine(label, p) == label \o " manifest references missing file in zip: " \o p

\* C4: the manifest-to-archive existence check runs for each archive on its
\* own: a parsed package document with a manifest path absent from that
\* archive's file set gets its unresolved-reference line, also when the other
\* archive has no package document.
C4_ExistencePerArchive ==
    OpfDone =>
        /\ opf_o # None =>
             \A p \in Unresolved(opf_o, names_o) :
                ExistenceLine("ORIG", p) \in Range(report_lines)
        /\ opf_t # None =>
             \A p \in Unresolved(opf_t, names_t) :
                ExistenceLine("TRAN", p) \in Range(report_lines)

IsBootstrapError(l) ==
    \E label \in { "orig", "tran" } :
        l \in { MissingLine(label), ContentLine(label), FirstLine(label), StoredLine(label) }
IsExistenceLine(l) == contains(l, " manifest references missing file in zip: ")

OpfClean ==
    (opf_o # None /\ opf_t # None) =>
        /\ man_missing = Some(<< >>) /\ man_extra = Some(<< >>)
        /\ mt_diffs = Some(0)
        /\ diff_idx = Some(-1)
        /\ Len(opf_o[1].spine_paths) = Len(opf_t[1].spine_paths)

\* every structural check and every non-markup check of the run was clean
AllClean ==
    /\ missing = << >> /\ extra = << >>
    /\ \A i \in 1..Len(report_lines) : ~IsBootstrapError(report_lines[i])
    /\ opf_o_rel = opf_t_rel
    /\ OpfClean
    /\ \A i \in 1..Len(report_lines) : ~IsExistenceLine(report_lines[i])
    /\ non_html_changed = << >>
    /\ "mimetype" \notin Range(changed_html_paths)

\* C5: the summary ends with the 'structures and non-HTML content identical'
\* hint exactly when no structural and no non-markup finding was recorded.
C5_HintIffAllClean ==
    (pc = "done" /\ raised = None) => (HINT \in Range(report_lines) <=> AllClean)

DifferingPaths ==
    { p \in Range(names_o) \cap Range(names_t) : Payload(zo, p) # Payload(zt, p) }

\* C6: the content diff has exactly one change record for every path of both
\* listings whose payloads differ and none for any other path.
C6_EveryDifferenceRecorded ==
    ContentDone =>
        /\ Range(changed_html_paths) \cup Range(non_html_changed) = DifferingPaths
        /\ Len(changed) = Cardinality(DifferingPaths)

DiffersAt(a, b, i) == a[i + 1] # b[i + 1]
CommonLen(a, b) == Min(Len(a), Len(b))
IsPrefix(a, b) == Len(a) <= Len(b) /\ \A i \in 1..Len(a) : a[i] = b[i]

\* d is the smallest index below the shorter length at which a and b differ,
\* and -1 when there is none
IsFirstDiff(d, a, b) ==
    /\ d = -1 <=> ~ \E i \in 0..(CommonLen(a, b) - 1) : DiffersAt(a, b, i)
    /\ d # -1 => /\ d \in 0..(CommonLen(a, b) - 1)
                 /\ DiffersAt(a, b, d)
                 /\ \A j \in 0..(d - 1) : ~DiffersAt(a, b, j)
    /\ d = -1 <=> (IsPrefix(a, b) \/ IsPrefix(b, a))

\* C7: the first spine diff index is the smallest index below the shorter
\* length at which the two reading orders differ, and -1 exactly when the lists
\* are equal or one is a prefix of the other.
C7_FirstSpineDiff == spine_idx # None => IsFirstDiff(spine_idx[1], spine_o, spine_t)

\* C7: two reading orders of different lengths that agree at 0 and differ at 1
C7_Witness ==
    /\ spine_idx = Some(1)
    /\ Len(spine_o) = 2 /\ Len(spine_t) = 3
    /\ spine_o[1] = spine_t[1]

IsSortedStrict(xs) == \A i \in 1..(Len(xs) - 1) : StrLess(xs[i], xs[i + 1])

\* C8: the missing list of compare(A, B) is the extra list of compare(B, A)
\* and the reverse; missing is exactly the listed paths of A absent from B,
\* extra exactly those of B absent from A, each path once and in order.
C8_FileSetDiffMirrors ==
    pc \notin { "idle", "start" } =>
        /\ missing = ExtraOf(zip_namelist_files(zt), zip_namelist_files(zo))
        /\ extra = MissingOf(zip_namelist_files(zt), zip_namelist_files(zo))
        /\ Range(missing) = { p \in Range(names_o) : p \notin Range(names_t) }
        /\ Range(extra) = { p \in Range(names_t) : p \notin Range(names_o) }
        /\ IsSortedStrict(missing) /\ IsSortedStrict(extra)

\* C8: the translated archive is the original plus one file
C8_Witness ==
    /\ pc = "done"
    /\ missing = << >>
    /\ extra = << "ch1.xhtml" >>
    /\ "Extra in translated:" \in Range(report_lines)

KeptNames == SelectSeq(raw_names, LAMBDA n : ~endswith(n, "/"))

\* C9: the listing of zip_namelist_files has no directory entry and no path
\* that starts with './' or contains a backslash, whatever the raw names.
C9_ListingNormalized ==
    listing # None =>
        /\ Len(listing[1]) = Len(KeptNames)
        /\ \A i \in 1..Len(listing[1]) :
            /\ ~startswith(listing[1][i], "./")
            /\ ~contains(listing[1][i], "\\")

\* the directory of a document and a reference resolved against it
DirOf == [ p \in DocPaths |-> IF p = "text/ch1.xhtml" THEN "text" ELSE "" ]
IsSkipped(v) == v \in { "#top", "http://e.org/" }
ResolvedIn(dir, v) ==
    IF dir = "" THEN v
    ELSE IF v = "../a.txt" THEN "a.txt"
    ELSE dir \o "/" \o v

\* one line for each reference, in document order, whose resolved path is absent
RECURSIVE AbsentLines(_, _, _, _)
AbsentLines(refs, i, dir, names) ==
    IF i > Len(refs) THEN << >>
    ELSE (IF IsSkipped(refs[i]) \/ ResolvedIn(dir, refs[i]) \in names THEN << >>
          ELSE << "missing referenced resource: " \o ResolvedIn(dir, refs[i]) >>)
         \o AbsentLines(refs, i + 1, dir, names)

\* C10: every src/href value that is neither fragment-only nor scheme-prefixed
\* is resolved against the directory of its document and looked up in the
\* translated archive's file set; a reference whose resolved path is absent is
\* reported once, a reference that is present is not reported.
C10_ReferencesResolved ==
    doc_issues # None =>
        doc_issues[1] = AbsentLines(doc_refs, 1, DirOf[doc_path], doc_names)

\* C10: img/cover.png referenced from text/ch1.xhtml while the archive has
\* img/cover.png and not text/img/cover.png
C10_Witness ==
    /\ doc_path = "text/ch1.xhtml"
    /\ doc_refs = << "img/cover.png" >>
    /\ "img/cover.png" \in doc_names
    /\ "text/img/cover.png" \notin doc_names
    /\ doc_issues = Some(<< "missing referenced resource: text/img/cover.png" >>)
====
